---- MODULE Spec2Model ----
(***************************************************************************)
(* Cross-chain flow radar: the explain pipeline (src/cloudrun/main.py) and *)
(* the attestation job (src/attest/attest.py) as state machines.           *)
(*                                                                         *)
(* Conventions.                                                            *)
(*  - A nullable SQL / Python value is a tuple: <<>> is NULL (None), <<v>> *)
(*    is the integer v, and <<n, d>> (d > 0) is the rational n/d that a    *)
(*    FLOAT64 AVG or SAFE_DIVIDE yields.  Floating-point rounding is not   *)
(*    modelled: arithmetic is exact.                                       *)
(*  - USD amounts are integers (whole cents), so ROUND(x, 2) keeps them.   *)
(*  - Dates are integers (day numbers); DATE_SUB(d, INTERVAL k DAY) = d-k. *)
(*  - A string is a sequence of tokens; a serialized JSON document is a    *)
(*    sequence of characters, one character per list.                     *)
(***************************************************************************)
EXTENDS Integers, Sequences, FiniteSets, TLC

VARIABLES
    flows,        \* FLOWS_TABLE: the set of flow records in the warehouse
    anomsView,    \* ANOMS_VIEW: <<>> when the view does not exist, else <<rows>>
    briefings,    \* BRIEFINGS_TABLE: the set of stored briefing rows
    clock,        \* CURRENT_TIMESTAMP() of the warehouse, a logical clock
    resp,         \* what the last explain invocation returned (or raised)
    call,         \* the last explain invocation: inputs and intermediate values
    contrast,     \* the last result of _fetch_contrast_rows and its query
    summary,      \* the narrative handed to decide_has_anomaly
    verdict,      \* its result: <<>> before the call, then <<TRUE>> or <<FALSE>>
    runs,         \* the attestation runs: pc, arguments, rows, local nonce
    submitted,    \* transactions accepted by send_raw_transaction, in order
    accountNonce  \* get_transaction_count of the signing account

vars == <<flows, anomsView, briefings, clock, resp, call, contrast,
          summary, verdict, runs, submitted, accountNonce>>

----------------------------------------------------------------------------
(* Nullable values and exact rationals *)

NULL == <<>>

IsNull(v) == v = <<>>

Abs(x) == IF x < 0 THEN 0 - x ELSE x

\* Equality of two nullable rationals <<n, d>> / integers <<v>> as numbers.
Num(v) == v[1]
Den(v) == IF Len(v) = 2 THEN v[2] ELSE 1
NumEq(a, b) ==
    IF IsNull(a) \/ IsNull(b) THEN IsNull(a) /\ IsNull(b)
    ELSE Num(a) * Den(b) = Num(b) * Den(a)

\* a - b with a NULL operand giving NULL.
NSub(a, b) ==
    IF IsNull(a) \/ IsNull(b) THEN NULL
    ELSE <<Num(a) * Den(b) - Num(b) * Den(a), Den(a) * Den(b)>>

\* NULLIF(v, 0)
NullIf0(v) == IF IsNull(v) THEN NULL ELSE IF Num(v) = 0 THEN NULL ELSE v

\* SAFE_DIVIDE(a, b): NULL on a NULL operand and on division by zero.
SafeDivide(a, b) ==
    IF IsNull(a) \/ IsNull(b) THEN NULL
    ELSE IF Num(b) = 0 THEN NULL
    ELSE IF Num(b) > 0 THEN <<Num(a) * Den(b), Den(a) * Num(b)>>
    ELSE <<0 - Num(a) * Den(b), Den(a) * (0 - Num(b))>>

RECURSIVE SumField(_, _)
SumField(S, f) ==
    IF S = {} THEN 0
    ELSE LET r == CHOOSE x \in S : TRUE IN r[f] + SumField(S \ {r}, f)

\* SUM(f) over the rows S: NULL over no rows.
SqlSum(S, f) == IF S = {} THEN NULL ELSE <<SumField(S, f)>>

\* AVG(f) over the rows S: NULL over no rows.
SqlAvg(S, f) == IF S = {} THEN NULL ELSE <<SumField(S, f), Cardinality(S)>>

----------------------------------------------------------------------------
(* Evidence Aggregator: _fetch_contrast_rows (one SQL script over FLOWS_TABLE) *)

WindowDays == 7

\* ChainTotals without its chain filter: WHERE day=d.
ChainTotalsAnyChain(T, d, c) ==
    LET S == {r \in T : r.day = d}
    IN  [in_usd  |-> SqlSum(S, "in_amount_usd"),
         out_usd |-> SqlSum(S, "out_amount_usd"),
         net_usd |-> SqlSum(S, "net_amount_usd"),
         txs     |-> SqlSum(S, "tx_count"),
         uw      |-> SqlSum(S, "unique_wallets")]

\* chain_today / chain_prev1: one row of SUMs over the records of (day, chain);
\* an aggregate without GROUP BY yields exactly one row, of NULLs over no record.
ChainTotals(T, d, c) ==
    LET S == {r \in T : r.day = d /\ r.chain = c}
    IN  [in_usd  |-> SqlSum(S, "in_amount_usd"),
         out_usd |-> SqlSum(S, "out_amount_usd"),
         net_usd |-> SqlSum(S, "net_amount_usd"),
         txs     |-> SqlSum(S, "tx_count"),
         uw      |-> SqlSum(S, "unique_wallets")]

\* WHERE chain=c AND day BETWEEN DATE_SUB(d, 7) AND DATE_SUB(d, 1)
WindowRows(T, d, c) ==
    {r \in T : r.chain = c /\ r.day >= d - WindowDays /\ r.day <= d - 1}

\* chain_7d: the inner query has one row per day (GROUP BY day), the outer one
\* averages them.
Chain7d(T, d, c) ==
    LET W     == WindowRows(T, d, c)
        inner == {[day     |-> dd,
                   in_usd  |-> SumField({r \in W : r.day = dd}, "in_amount_usd"),
                   out_usd |-> SumField({r \in W : r.day = dd}, "out_amount_usd"),
                   net_usd |-> SumField({r \in W : r.day = dd}, "net_amount_usd"),
                   txs     |-> SumField({r \in W : r.day = dd}, "tx_count"),
                   uw      |-> SumField({r \in W : r.day = dd}, "unique_wallets")]
                  : dd \in {r.day : r \in W}}
    IN  [in_usd  |-> SqlAvg(inner, "in_usd"),
         out_usd |-> SqlAvg(inner, "out_usd"),
         net_usd |-> SqlAvg(inner, "net_usd"),
         txs     |-> SqlAvg(inner, "txs"),
         uw      |-> SqlAvg(inner, "uw")]

\* PctChange with its NULL result coerced: COALESCE(SAFE_DIVIDE(...), 0).
PctChangeCoalesced(today, ref) ==
    IF IsNull(SafeDivide(NSub(today, ref), NullIf0(ref))) THEN <<0>>
    ELSE SafeDivide(NSub(today, ref), NullIf0(ref))

\* SAFE_DIVIDE(today - reference, NULLIF(reference, 0))
PctChange(today, ref) == SafeDivide(NSub(today, ref), NullIf0(ref))

\* chain_ctx: chain_today LEFT JOIN chain_prev1 ON TRUE LEFT JOIN chain_7d ON TRUE
ChainCtx(T, d, c) ==
    LET t == ChainTotals(T, d, c)
        p == ChainTotals(T, d - 1, c)
        s == Chain7d(T, d, c)
    IN  [level |-> "_CHAIN", bridge |-> "_TOTAL", token_symbol |-> "_ALL",
         day |-> d, chain |-> c,
         in_usd_d |-> t.in_usd, out_usd_d |-> t.out_usd, net_usd_d |-> t.net_usd,
         txs_d |-> t.txs, uw_d |-> t.uw,
         in_usd_p1 |-> p.in_usd, out_usd_p1 |-> p.out_usd, net_usd_p1 |-> p.net_usd,
         txs_p1 |-> p.txs, uw_p1 |-> p.uw,
         in_usd_7avg |-> s.in_usd, out_usd_7avg |-> s.out_usd,
         net_usd_7avg |-> s.net_usd, txs_7avg |-> s.txs, uw_7avg |-> s.uw,
         net_dod_pct  |-> PctChange(t.net_usd, p.net_usd),
         net_vs7d_pct |-> PctChange(t.net_usd, s.net_usd),
         net_share_of_chain |-> NULL]

KeysOf(S) == {<<r.bridge, r.token_symbol>> : r \in S}

OfKey(S, k) == {r \in S : r.bridge = k[1] /\ r.token_symbol = k[2]}

\* bridge_today: GROUP BY bridge, token_symbol over the records of (day, chain)
BridgeToday(T, d, c) ==
    LET S == {r \in T : r.day = d /\ r.chain = c}
    IN  {[bridge |-> k[1], token_symbol |-> k[2],
          in_usd_d  |-> <<SumField(OfKey(S, k), "in_amount_usd")>>,
          out_usd_d |-> <<SumField(OfKey(S, k), "out_amount_usd")>>,
          net_usd_d |-> <<SumField(OfKey(S, k), "net_amount_usd")>>,
          txs_d     |-> <<SumField(OfKey(S, k), "tx_count")>>,
          uw_d      |-> <<SumField(OfKey(S, k), "unique_wallets")>>]
         : k \in KeysOf(S)}

\* bridge_prev1: the same grouping over day - 1
BridgePrev1(T, d, c) ==
    LET S == {r \in T : r.day = d - 1 /\ r.chain = c}
    IN  {[bridge |-> k[1], token_symbol |-> k[2],
          in_usd_p1  |-> <<SumField(OfKey(S, k), "in_amount_usd")>>,
          out_usd_p1 |-> <<SumField(OfKey(S, k), "out_amount_usd")>>,
          net_usd_p1 |-> <<SumField(OfKey(S, k), "net_amount_usd")>>]
         : k \in KeysOf(S)}

\* bridge_7d: the inner query groups by (bridge, token_symbol) only, not by
\* day, so it has one row per key holding the key's total over the whole
\* window; the outer AVG per key then averages that single row.
Bridge7d(T, d, c) ==
    LET W     == WindowRows(T, d, c)
        inner == {[bridge |-> k[1], token_symbol |-> k[2],
                   in_usd  |-> SumField(OfKey(W, k), "in_amount_usd"),
                   out_usd |-> SumField(OfKey(W, k), "out_amount_usd"),
                   net_usd |-> SumField(OfKey(W, k), "net_amount_usd")]
                  : k \in KeysOf(W)}
    IN  {[bridge |-> k[1], token_symbol |-> k[2],
          in_usd_7avg  |-> SqlAvg(OfKey(inner, k), "in_usd"),
          out_usd_7avg |-> SqlAvg(OfKey(inner, k), "out_usd"),
          net_usd_7avg |-> SqlAvg(OfKey(inner, k), "net_usd")]
         : k \in KeysOf(inner)}

\* chain_total_net: SELECT SUM(net_usd_d) FROM bridge_today
ChainTotalNet(BT) ==
    IF BT = {} THEN NULL
    ELSE <<SumField({[k |-> <<r.bridge, r.token_symbol>>, v |-> r.net_usd_d[1]]
                     : r \in BT}, "v")>>

\* A LEFT JOIN ... USING(bridge, token_symbol) against a relation with at most
\* one row per key: that row's field, or NULL when no row matches.
Joined(R, k, f) ==
    IF OfKey(R, k) = {} THEN NULL ELSE (CHOOSE r \in OfKey(R, k) : TRUE)[f]

\* bridge_ctx
BridgeCtx(T, d, c) ==
    LET BT == BridgeToday(T, d, c)
        BP == BridgePrev1(T, d, c)
        B7 == Bridge7d(T, d, c)
        ct == ChainTotalNet(BT)
    IN  {LET k == <<bt.bridge, bt.token_symbol>>
         IN  [level |-> "_BRIDGE", bridge |-> bt.bridge,
              token_symbol |-> bt.token_symbol, day |-> d, chain |-> c,
              in_usd_d |-> bt.in_usd_d, out_usd_d |-> bt.out_usd_d,
              net_usd_d |-> bt.net_usd_d, txs_d |-> bt.txs_d, uw_d |-> bt.uw_d,
              in_usd_p1  |-> Joined(BP, k, "in_usd_p1"),
              out_usd_p1 |-> Joined(BP, k, "out_usd_p1"),
              net_usd_p1 |-> Joined(BP, k, "net_usd_p1"),
              txs_p1 |-> NULL, uw_p1 |-> NULL,
              in_usd_7avg  |-> Joined(B7, k, "in_usd_7avg"),
              out_usd_7avg |-> Joined(B7, k, "out_usd_7avg"),
              net_usd_7avg |-> Joined(B7, k, "net_usd_7avg"),
              txs_7avg |-> NULL, uw_7avg |-> NULL,
              net_dod_pct  |-> PctChange(bt.net_usd_d, Joined(BP, k, "net_usd_p1")),
              net_vs7d_pct |-> PctChange(bt.net_usd_d, Joined(B7, k, "net_usd_7avg")),
              net_share_of_chain |-> SafeDivide(bt.net_usd_d, NullIf0(ct))]
         : bt \in BT}

\* ORDER BY CASE WHEN level='_CHAIN' THEN 0 ELSE 1 END, ABS(COALESCE(net_usd_d,0)) DESC
LevelRank(r) == IF r.level = "_CHAIN" THEN 0 ELSE 1

AbsNetD(r) == IF IsNull(r.net_usd_d) THEN 0 ELSE Abs(r.net_usd_d[1])

ContrastBefore(a, b) ==
    \/ LevelRank(a) < LevelRank(b)
    \/ LevelRank(a) = LevelRank(b) /\ AbsNetD(a) > AbsNetD(b)

\* Every order of the rows S the ORDER BY allows (rows that tie come in either order).
RECURSIVE ContrastOrders(_)
ContrastOrders(S) ==
    IF S = {} THEN {<<>>}
    ELSE UNION {{<<r>> \o s : s \in ContrastOrders(S \ {r})}
                : r \in {x \in S : \A y \in S : ~ContrastBefore(y, x)}}

\* _fetch_contrast_rows: chain_ctx UNION ALL bridge_ctx, ordered; the set of the
\* results the query may return.
FetchContrastRows(T, d, c) ==
    ContrastOrders({ChainCtx(T, d, c)} \cup BridgeCtx(T, d, c))

----------------------------------------------------------------------------
(* Values the variables hold while the component they belong to is not run *)

NoResp ==
    [status |-> 0, ok |-> FALSE, day |-> 0, chain |-> "", wrote |-> FALSE,
     fallback |-> FALSE, reason |-> "", rows |-> 0, model |-> ""]

NoCall ==
    [stage |-> "none", day |-> 0, chain |-> "", branch |-> "", anomCase |-> "",
     bridges |-> <<>>, model |-> "", given |-> <<>>, evidence |-> <<>>,
     text |-> <<>>, merged |-> FALSE, before |-> {}, now |-> 0]
NoQuery == [day |-> 0, chain |-> "", rows |-> <<>>]

Runs == {1, 2}

IdleRun ==
    [pc |-> "idle", dry |-> FALSE, chain |-> "", rows |-> <<>>, i |-> 0,
     nonce |-> 0, n0 |-> 0, env |-> [pk |-> FALSE, addr |-> FALSE],
     built |-> 0, alone |-> TRUE]

----------------------------------------------------------------------------
(* The aggregator alone: flow tables drawn from a bounded universe, queried *)

MaxFlows == 3

Chains == {"ethereum", "bsc"}

\* <<in_amount_usd, out_amount_usd, net_amount_usd, tx_count, unique_wallets>>
Amounts == {<<1, 0, 1, 1, 1>>, <<0, 1, -1, 2, 1>>}

FlowRecord(d, c, b, t, a) ==
    [day |-> d, chain |-> c, bridge |-> b, token_symbol |-> t,
     in_amount_usd |-> a[1], out_amount_usd |-> a[2], net_amount_usd |-> a[3],
     tx_count |-> a[4], unique_wallets |-> a[5]]

\* The days the aggregator's tables hold records on: for a query on day 10,
\* one day before the window, the window's first day, yesterday and today.
AggDays == {2, 3, 9, 10}

AggQueryDays == {9, 10}

AggKeys == {<<"across", "USDC">>, <<"across", "WETH">>, <<"hop", "USDC">>}

AggUniverse ==
    {FlowRecord(d, "ethereum", k[1], k[2], a) : d \in AggDays, k \in AggKeys, a \in Amounts}
    \cup {FlowRecord(d, "bsc", "across", "USDC", <<1, 0, 1, 1, 1>>) : d \in AggDays}

\* The tables of at most n records of U.
RECURSIVE TablesUpTo(_, _)
TablesUpTo(U, n) ==
    IF n = 0 THEN {{}}
    ELSE LET smaller == TablesUpTo(U, n - 1)
         IN  smaller \cup {S \cup {x} : S \in smaller, x \in U}

InitAgg ==
    /\ flows \in TablesUpTo(AggUniverse, MaxFlows)
    /\ anomsView = <<>>
    /\ briefings = {}
    /\ clock = 0
    /\ resp = NoResp
    /\ call = NoCall
    /\ contrast = NoQuery
    /\ summary = <<>>
    /\ verdict = <<>>
    /\ runs = [r \in Runs |-> IdleRun]
    /\ submitted = <<>>
    /\ accountNonce = 0

\* One call of _fetch_contrast_rows(bq, day_iso, chain) that returns.
QueryContrast(d, c) ==
    /\ \E rows \in FetchContrastRows(flows, d, c) :
           contrast' = [day |-> d, chain |-> c, rows |-> rows]
    /\ UNCHANGED <<flows, anomsView, briefings, clock, resp, call,
                   summary, verdict, runs, submitted, accountNonce>>

NextAgg == \E d \in AggQueryDays, c \in Chains : QueryContrast(d, c)

SpecAgg == InitAgg /\ [][NextAgg]_vars

----------------------------------------------------------------------------
(* Claims about the aggregator, stated on the last query's result *)

Queried == contrast # NoQuery

BridgeRowsOf(rows) == {i \in 1..Len(rows) : rows[i].level = "_BRIDGE"}

\* The window's records a result row is about: all of the chain's for the
\* chain-level row, the key's for a bridge-level row.
WindowOfRow(r) ==
    LET W == {x \in flows : x.chain = r.chain /\ x.day >= r.day - 7 /\ x.day <= r.day - 1}
    IN  IF r.level = "_CHAIN" THEN W
        ELSE {x \in W : x.bridge = r.bridge /\ x.token_symbol = r.token_symbol}

\* The mean of the per-day totals of field f over the records W: the sum of
\* all of W over the number of days W has records on; NULL over no record.
MeanOfDailyTotals(W, f) ==
    IF W = {} THEN NULL ELSE <<SumField(W, f), Cardinality({x.day : x \in W})>>

SevenDayMeansOf(r) ==
    /\ NumEq(r.in_usd_7avg,  MeanOfDailyTotals(WindowOfRow(r), "in_amount_usd"))
    /\ NumEq(r.out_usd_7avg, MeanOfDailyTotals(WindowOfRow(r), "out_amount_usd"))
    /\ NumEq(r.net_usd_7avg, MeanOfDailyTotals(WindowOfRow(r), "net_amount_usd"))

\* C6: in every row of a result, chain-level and bridge-level, the 7-day-average
\* in/out/net fields are the arithmetic mean of the key's per-day totals over
\* the days of [day-7, day-1] that have records, and NULL when there are none.
C6_SevenDayAverageIsMeanOfDailyTotals ==
    Queried => \A i \in 1..Len(contrast.rows) : SevenDayMeansOf(contrast.rows[i])

\* The part of C6 the code keeps: the chain-level row, and the NULLs.
C6_ChainLevelMeanAndNulls ==
    Queried =>
        \A i \in 1..Len(contrast.rows) :
            LET r == contrast.rows[i]
            IN  /\ r.level = "_CHAIN" => SevenDayMeansOf(r)
                /\ WindowOfRow(r) = {} =>
                       IsNull(r.in_usd_7avg) /\ IsNull(r.out_usd_7avg) /\ IsNull(r.net_usd_7avg)

\* The records of day dd a result row is about.
DayOfRow(r, dd) ==
    LET S == {x \in flows : x.chain = r.chain /\ x.day = dd}
    IN  IF r.level = "_CHAIN" THEN S
        ELSE {x \in S : x.bridge = r.bridge /\ x.token_symbol = r.token_symbol}

ZeroOrAbsent(v) == IsNull(v) \/ Num(v) = 0

\* pct is the finite number (today - ref) / ref, for ref # 0.
IsPctOf(pct, today, ref) ==
    /\ ~IsNull(pct)
    /\ Den(pct) > 0
    /\ Num(pct) * Num(ref) * Den(today) =
           (Num(today) * Den(ref) - Num(ref) * Den(today)) * Den(pct)

PctField(pct, today, ref) ==
    IF ZeroOrAbsent(ref) THEN IsNull(pct)
    ELSE IF IsNull(today) THEN IsNull(pct)
    ELSE IsPctOf(pct, today, ref)

\* C7: in every row of a result, net_dod_pct is NULL when yesterday's net (the
\* sum of the key's records of day-1) is zero or absent and net_vs7d_pct is
\* NULL when the row's 7-day-average net (or the key's window total) is zero or
\* absent; otherwise each is the finite number (today - reference) / reference,
\* NULL only when today itself has no record (NULL arithmetic).
C7_PctNullOnZeroOrAbsentReference ==
    Queried =>
        \A i \in 1..Len(contrast.rows) :
            LET r    == contrast.rows[i]
                yest == SqlSum(DayOfRow(r, r.day - 1), "net_amount_usd")
                tod  == SqlSum(DayOfRow(r, r.day), "net_amount_usd")
            IN  /\ NumEq(r.net_usd_p1, yest)
                /\ NumEq(r.net_usd_d, tod)
                /\ PctField(r.net_dod_pct, tod, yest)
                /\ PctField(r.net_vs7d_pct, tod, r.net_usd_7avg)
                /\ ZeroOrAbsent(MeanOfDailyTotals(WindowOfRow(r), "net_amount_usd"))
                       => IsNull(r.net_vs7d_pct)

\* C7's case: one result with a NULL percentage over a zero reference (the
\* chain's yesterday nets cancel) and a computed one over a non-zero reference.
C7_Witness ==
    /\ Queried
    /\ \E i \in 1..Len(contrast.rows) :
           /\ contrast.rows[i].net_usd_p1 = <<0>>
           /\ IsNull(contrast.rows[i].net_dod_pct)
    /\ \E i \in 1..Len(contrast.rows) :
           /\ ~ZeroOrAbsent(contrast.rows[i].net_usd_p1)
           /\ ~IsNull(contrast.rows[i].net_dod_pct)
    /\ \E i \in 1..Len(contrast.rows) :
           /\ ZeroOrAbsent(contrast.rows[i].net_usd_7avg)
           /\ IsNull(contrast.rows[i].net_vs7d_pct)

RECURSIVE SumNetD(_, _)
SumNetD(rows, I) ==
    IF I = {} THEN 0
    ELSE LET i == CHOOSE x \in I : TRUE IN rows[i].net_usd_d[1] + SumNetD(rows, I \ {i})

\* C8: a result has exactly one chain-level row, and it comes first; the
\* bridge-level rows have pairwise different (bridge, token) keys; and the
\* chain row's today-net is the sum of the bridge rows' today-nets (NULL, the
\* SUM over no rows, when there is no bridge row).
C8_OneChainRowFirstReconciled ==
    Queried =>
        LET rows == contrast.rows
            B    == BridgeRowsOf(rows)
        IN  /\ Len(rows) >= 1
            /\ rows[1].level = "_CHAIN"
            /\ B = 2..Len(rows)
            /\ \A i, j \in B :
                   (rows[i].bridge = rows[j].bridge
                      /\ rows[i].token_symbol = rows[j].token_symbol) => i = j
            /\ IF B = {} THEN IsNull(rows[1].net_usd_d)
               ELSE rows[1].net_usd_d = <<SumNetD(rows, B)>>

\* C8's case: several bridge rows, not all of one sign, under a chain row.
C8_Witness ==
    /\ Queried
    /\ Len(contrast.rows) >= 3
    /\ \E i, j \in BridgeRowsOf(contrast.rows) :
           contrast.rows[i].net_usd_d[1] > 0 /\ contrast.rows[j].net_usd_d[1] < 0
    /\ ~IsNull(contrast.rows[1].net_usd_d)

----------------------------------------------------------------------------
(* Text-heuristic classifier: decide_has_anomaly (src/attest/attest.py) *)

\* str.lower() on one token: the capitalised tokens fold, the rest (the CJK
\* ones among them) stay.
LowerToken(t) == IF t = "No" THEN "no" ELSE IF t = "Anomal" THEN "anomal" ELSE t

Lower(s) == [i \in 1..Len(s) |-> LowerToken(s[i])]

\* k in s: k is a contiguous part of s.
Contains(s, k) ==
    \E i \in 0..(Len(s) - Len(k)) : \A j \in 1..Len(k) : s[i + j] = k[j]

\* bad = ["anomal", "abnormal", "irregular", "异常", "显著"]
BadKeywords ==
    {<<"anomal">>, <<"abnormal">>, <<"irregular">>, <<"zh_yichang">>, <<"zh_xianzhu">>}

\* good = ["no anomaly", "no significant", "未发现显著异常"]
GoodPhrases ==
    {<<"no", " ", "anomal", "y">>, <<"no", " ", "significant">>,
     <<"zh_weifaxian", "zh_xianzhu", "zh_yichang">>}

\* decide_has_anomaly with the two tests in the other order.
DecideHasAnomalyKeywordFirst(text) ==
    IF text = <<>> THEN FALSE
    ELSE IF \E b \in BadKeywords : Contains(Lower(text), b) THEN TRUE
    ELSE FALSE

DecideHasAnomaly(text) ==
    IF text = <<>> THEN FALSE
    ELSE IF \E g \in GoodPhrases : Contains(Lower(text), g) THEN FALSE
    ELSE IF \E b \in BadKeywords : Contains(Lower(text), b) THEN TRUE
    ELSE FALSE

MaxNarrative == 4

NarrativeTokens ==
    {"no", "No", " ", "anomal", "Anomal", "y", "significant", "abnormal", "irregular",
     "zh_weifaxian", "zh_xianzhu", "zh_yichang", "flows"}

Narratives == UNION {[1..n -> NarrativeTokens] : n \in 0..MaxNarrative}

InitClassify ==
    /\ summary \in Narratives
    /\ verdict = <<>>
    /\ flows = {}
    /\ anomsView = <<>>
    /\ briefings = {}
    /\ clock = 0
    /\ resp = NoResp
    /\ call = NoCall
    /\ contrast = NoQuery
    /\ runs = [r \in Runs |-> IdleRun]
    /\ submitted = <<>>
    /\ accountNonce = 0

\* One call of decide_has_anomaly(summary).
Decide ==
    /\ verdict = <<>>
    /\ verdict' = <<DecideHasAnomaly(summary)>>
    /\ UNCHANGED <<flows, anomsView, briefings, clock, resp, call, contrast,
                   summary, runs, submitted, accountNonce>>

NextClassify == Decide

SpecClassify == InitClassify /\ [][NextClassify]_vars

HasKeyword(s) ==
    \E i \in 1..Len(s) :
        \/ s[i] \in {"anomal", "abnormal", "irregular", "zh_yichang", "zh_xianzhu"}

HasNegation(s) ==
    \E i \in 1..Len(s) :
        \/ i + 3 <= Len(s) /\ s[i] = "no" /\ s[i+1] = " " /\ s[i+2] = "anomal" /\ s[i+3] = "y"
        \/ i + 2 <= Len(s) /\ s[i] = "no" /\ s[i+1] = " " /\ s[i+2] = "significant"
        \/ i + 2 <= Len(s) /\ s[i] = "zh_weifaxian" /\ s[i+1] = "zh_xianzhu"
                           /\ s[i+2] = "zh_yichang"

\* C9: the classifier answers TRUE exactly when the lower-cased narrative holds
\* a negative keyword and no negation phrase; so a negation phrase wins over any
\* keyword, and an empty or keyword-free narrative is not anomalous.
C9_KeywordUnlessNegated ==
    verdict # <<>> =>
        verdict[1] = (HasKeyword(Lower(summary)) /\ ~HasNegation(Lower(summary)))

\* C9's case: a narrative with a negation phrase and a further keyword
\* ("No anomaly ... irregular"), classified not anomalous.
C9_Witness ==
    /\ verdict = <<FALSE>>
    /\ \E i \in 1..Len(summary) : summary[i] = "irregular"
    /\ \E i \in 1..Len(summary) : summary[i] = "No"
    /\ HasNegation(Lower(summary))

----------------------------------------------------------------------------
(* The explain pipeline's helpers (src/cloudrun/main.py) *)

\* seq[:n]
Take(seq, n) == SubSeq(seq, 1, IF n < Len(seq) THEN n ELSE Len(seq))

\* GENAI_MODEL
MODEL == "gemini-1.5-flash-002"

\* ORDER BY ABS(zscore_30d) DESC, ABS(net_usd) DESC
AnomBefore(a, b) ==
    \/ Abs(a.zscore_30d) > Abs(b.zscore_30d)
    \/ Abs(a.zscore_30d) = Abs(b.zscore_30d) /\ Abs(a.net_usd) > Abs(b.net_usd)

RECURSIVE AnomOrders(_)
AnomOrders(S) ==
    IF S = {} THEN {<<>>}
    ELSE UNION {{<<r>> \o s : s \in AnomOrders(S \ {r})}
                : r \in {x \in S : \A y \in S : ~AnomBefore(y, x)}}

AnomLimit == 12

\* _fetch_anom_bridges without "AND is_anom_bridge" in its WHERE clause.
FetchAnomBridgesUnfiltered(view, queryOutcome, d, c) ==
    IF view = <<>> \/ queryOutcome = "fail" THEN {<<>>}
    ELSE {[i \in 1..Len(Take(s, AnomLimit)) |-> s[i].bridge]
          : s \in AnomOrders({r \in view[1] : r.day = d /\ r.chain = c})}

\* _fetch_anom_bridges: the lists of bridges it may return.  The query raises
\* when the view does not exist or the job fails; the except clause turns that
\* into [].
FetchAnomBridges(view, queryOutcome, d, c) ==
    IF view = <<>> \/ queryOutcome = "fail" THEN {<<>>}
    ELSE {[i \in 1..Len(Take(s, AnomLimit)) |-> s[i].bridge]
          : s \in AnomOrders({r \in view[1] : r.day = d /\ r.chain = c /\ r.is_anom_bridge})}

\* ORDER BY ABS(net_usd) DESC
RECURSIVE EvidenceOrders(_)
EvidenceOrders(S) ==
    IF S = {} THEN {<<>>}
    ELSE UNION {{<<r>> \o s : s \in EvidenceOrders(S \ {r})}
                : r \in {x \in S : \A y \in S : Abs(y.net_usd) <= Abs(x.net_usd)}}

InList(x, seq) == \E i \in 1..Len(seq) : seq[i] = x

\* _fetch_bridge_evidence: the row lists the query may return.  bridges is a
\* list, or <<>> for None / []; both leave the filter clause out.
FetchBridgeEvidence(T, d, c, bridges, limit) ==
    LET S == {r \in T : /\ r.day = d /\ r.chain = c
                        /\ (bridges # <<>> => InList(r.bridge, bridges))}
        G == {[chain |-> c, day |-> d, bridge |-> k[1], token_symbol |-> k[2],
               in_usd  |-> SumField(OfKey(S, k), "in_amount_usd"),
               out_usd |-> SumField(OfKey(S, k), "out_amount_usd"),
               net_usd |-> SumField(OfKey(S, k), "net_amount_usd"),
               tx_count       |-> SumField(OfKey(S, k), "tx_count"),
               unique_wallets |-> SumField(OfKey(S, k), "unique_wallets")]
              : k \in KeysOf(S)}
    IN  {Take(s, limit) : s \in EvidenceOrders(G)}

\* A text is a sequence of lines, a line a sequence of string pieces (the
\* tokens of the classifier's narratives among them); "" is <<>>.
TopN == 5

\* The two reasons explain hands to _fallback_summary.
ReasonAnomaly == <<"Anomal", "y", " detected but model failed (fallback)">>

ReasonRoutine == <<"No", " ", "significant", " ", "anomal", "y">>

ItemLine(r) ==
    <<"- ", r.chain, "/", r.bridge, " ", r.token_symbol, ": net~",
      ToString(r.net_usd), ", tx=", ToString(r.tx_count),
      ", wallets=", ToString(r.unique_wallets)>>

\* _fallback_summary listing every row.
FallbackSummaryAllRows(day_iso, rows, reason) ==
    <<<<"[Cross-Chain Flow Briefing | ", ToString(day_iso), "]">>,
      <<"Conclusion: ">> \o reason \o <<".">>>>
    \o (IF rows # <<>>
        THEN <<<<"Top flows:">>>> \o [i \in 1..Len(rows) |-> ItemLine(rows[i])]
        ELSE <<<<"Top flows: none.">>>>)
    \o <<<<"Action: keep watching major bridges/tokens; set threshold alerts for large addresses.">>>>

\* _fallback_summary
FallbackSummary(day_iso, rows, reason) ==
    <<<<"[Cross-Chain Flow Briefing | ", ToString(day_iso), "]">>,
      <<"Conclusion: ">> \o reason \o <<".">>>>
    \o (IF rows # <<>>
        THEN <<<<"Top flows:">>>>
             \o [i \in 1..Len(Take(rows, TopN)) |-> ItemLine(rows[i])]
        ELSE <<<<"Top flows: none.">>>>)
    \o <<<<"Action: keep watching major bridges/tokens; set threshold alerts for large addresses.">>>>

\* (getattr(resp, "text", None) or "").strip() for each way the model call ends:
\* "raise" is any exception of vertexai.init / GenerativeModel /
\* generate_content, a timeout included; "empty" a response whose text is
\* None, "" or white space; "text" any other response.
ModelOutcomes == {"raise", "empty", "text"}

StrippedText(outcome, prompt) ==
    IF outcome # "text" THEN <<>>
    ELSE IF prompt = "anomaly" THEN <<<<"significant", " ", "anomal", "y", " on ", "across">>>>
    ELSE <<<<"No", " ", "significant", " ", "anomal", "y">>>>

\* json.dumps(rows, ensure_ascii=False, default=str): one character per list
\* bracket and separator; a row's object is "{", its content, "}".
RECURSIVE JsonItems(_)
JsonItems(rows) ==
    IF rows = <<>> THEN <<>>
    ELSE <<"{", rows[1], "}">>
         \o (IF Len(rows) = 1 THEN <<>> ELSE <<",">> \o JsonItems(Tail(rows)))

JsonDumps(rows) == <<"[">> \o JsonItems(rows) \o <<"]">>

\* json.loads(text) of a text json.dumps wrote, whole or cut: <<n>> for a list
\* of n objects, <<>> when it raises.  (Of a cut text every position 4k+3
\* holds a row's content and every other position a bracket or separator.)
JsonLoads(text) ==
    LET n == Len(text)
    IN  IF n < 2 THEN <<>>
        ELSE IF n = 2 THEN (IF text[1] = "[" /\ text[2] = "]" THEN <<0>> ELSE <<>>)
        ELSE IF /\ (n - 1) % 4 = 0
                /\ text[1] = "["
                /\ text[n] = "]"
                /\ \A i \in 2..(n - 1) :
                       /\ (i - 2) % 4 = 0 => text[i] = "{"
                       /\ (i - 2) % 4 = 2 => text[i] = "}"
                       /\ (i - 2) % 4 = 3 => text[i] = ","
             THEN <<(n - 1) \div 4>>
             ELSE <<>>

\* The [:900000] of _merge_briefing, scaled to the model's snapshots: a row
\* takes 4 characters here, so the budget holds two rows and cuts a third.
SnapshotBudget == 10

BriefingRow(day_iso, text, src, now) ==
    [day |-> day_iso, model |-> MODEL, summary_text |-> text,
     source_rows_json |-> src, created_at |-> now]

\* _merge_briefing with its WHEN MATCHED arm lost: every write inserts.
MergeBriefingInsertOnly(table, day_iso, text, rows, now) ==
    table \cup {BriefingRow(day_iso, text, Take(JsonDumps(rows), SnapshotBudget), now)}

\* _merge_briefing: the table after the MERGE (rows is always a list here:
\* explain never passes a str).
MergeBriefing(table, day_iso, text, rows, now) ==
    LET src     == Take(JsonDumps(rows), SnapshotBudget)
        matched == {t \in table : t.day = day_iso}
    IN  IF matched # {}
        THEN (table \ matched) \cup {BriefingRow(t.day, text, src, now) : t \in matched}
        ELSE table \cup {BriefingRow(day_iso, text, src, now)}

NotifyOutcomes == {"ok", "fail"}

----------------------------------------------------------------------------
(* The explain entrypoint (src/cloudrun/main.py), one action per invocation *)

MaxCalls == 2

ExplainDays == {9, 10}

\* How a warehouse query, the MERGE or the client's construction ends.
CallOutcomes == {"ok", "fail"}

\* _send_telegram(text): how the call ends for each outcome of the HTTP post.
\* It catches every exception of the post itself, so it always returns.
SendTelegram(notifyOutcome) == "returned"

\* str.lower() on the chain parameter
LowerChain(c) == IF c = "BSC" THEN "bsc" ELSE c

\* _get_param(request, "chain"): absent, or given
ChainParams == {<<>>, <<"BSC">>}

\* The response of a call that returns.
Response(day, chain, fallback, reason, rows) ==
    [status |-> 200, ok |-> TRUE, day |-> day, chain |-> chain, wrote |-> TRUE,
     fallback |-> fallback, reason |-> reason, rows |-> Len(rows), model |-> MODEL]

\* What the caller gets when explain raises: the hosting framework's HTTP 500.
Raised(day, chain) ==
    [status |-> 500, ok |-> FALSE, day |-> day, chain |-> chain, wrote |-> FALSE,
     fallback |-> FALSE, reason |-> "", rows |-> 0, model |-> ""]

\* What the anomaly-signal query met: no view, a failing job, or an answer.
AnomCase(view, queryOutcome) ==
    IF view = <<>> THEN "missing" ELSE IF queryOutcome = "fail" THEN "failed" ELSE "answered"

\* Steps 4-6 of either branch: _merge_briefing in its try; then, when
\* SEND_ON_FALLBACK or not fallback, _send_telegram in its try, which changes
\* nothing here; then the response.  given: the rows handed to
\* _fallback_summary, when it is called.
Finish(day, chain, info, given, evidence, text, fallback, reason) ==
    \E mergeOutcome \in CallOutcomes :
        /\ \A notifyOutcome \in NotifyOutcomes : SendTelegram(notifyOutcome) = "returned"
        /\ briefings' = IF mergeOutcome = "ok"
                        THEN MergeBriefing(briefings, day, text, evidence, clock + 1)
                        ELSE briefings
        /\ resp' = Response(day, chain, fallback, reason, evidence)
        /\ call' = [stage |-> "done", day |-> day, chain |-> chain,
                    branch |-> info.branch, anomCase |-> info.anomCase,
                    bridges |-> info.bridges, model |-> info.model,
                    given |-> given, evidence |-> evidence, text |-> text,
                    merged |-> (mergeOutcome = "ok"),
                    before |-> briefings, now |-> clock + 1]

\* The branch with anomalous bridges (main.py:341-384).
ExplainAnomaly(day, chain, anomCase, bridges) ==
    \E evidenceOutcome \in CallOutcomes, modelOutcome \in ModelOutcomes :
    \E ev \in (IF evidenceOutcome = "fail" THEN {<<>>}
               ELSE FetchBridgeEvidence(flows, day, chain, bridges, 200)) :
        LET info == [branch |-> "anomaly", anomCase |-> anomCase,
                     bridges |-> bridges, model |-> modelOutcome]
        IN  IF StrippedText(modelOutcome, "anomaly") = <<>>
            THEN Finish(day, chain, info, ev, ev,
                        FallbackSummary(day, ev, ReasonAnomaly),
                        TRUE, "vertex_failed")
            ELSE Finish(day, chain, info, <<>>, ev,
                        StrippedText(modelOutcome, "anomaly"), FALSE, "")

\* The branch without (main.py:386-433).
ExplainRoutine(day, chain, anomCase) ==
    \E contrastOutcome \in CallOutcomes, modelOutcome \in ModelOutcomes :
    \E contrast_rows \in (IF contrastOutcome = "fail" THEN {<<>>}
                          ELSE FetchContrastRows(flows, day, chain)) :
        LET info == [branch |-> "routine", anomCase |-> anomCase,
                     bridges |-> <<>>, model |-> modelOutcome]
        IN  IF StrippedText(modelOutcome, "no_anomaly") = <<>>
            THEN \E topsOutcome \in CallOutcomes :
                 \E tops \in (IF topsOutcome = "fail" THEN {<<>>}
                              ELSE FetchBridgeEvidence(flows, day, chain, <<>>, 20)) :
                     Finish(day, chain, info, tops,
                            IF contrast_rows # <<>> THEN contrast_rows ELSE tops,
                            FallbackSummary(day, tops, ReasonRoutine),
                            TRUE, "no_anomaly_fallback")
            ELSE Finish(day, chain, info, <<>>, contrast_rows,
                        StrippedText(modelOutcome, "no_anomaly"), FALSE, "no_anomaly")

\* explain(request): day is the day parameter or, without one, yesterday's date.
Explain(day, chainParam) ==
    LET chain == LowerChain(IF chainParam = <<>> THEN "ethereum" ELSE chainParam[1])
    IN  /\ clock < MaxCalls
        /\ clock' = clock + 1
        /\ \E clientOutcome \in CallOutcomes :
            IF clientOutcome = "fail"
            THEN \* bq = _bq() is outside every try: the exception leaves explain
                 /\ resp' = Raised(day, chain)
                 /\ call' = [NoCall EXCEPT !.stage = "raised", !.day = day,
                                           !.chain = chain, !.before = briefings,
                                           !.now = clock + 1]
                 /\ UNCHANGED briefings
            ELSE \E anomOutcome \in CallOutcomes :
                 \E bridges \in FetchAnomBridges(anomsView, anomOutcome, day, chain) :
                     IF bridges # <<>>
                     THEN ExplainAnomaly(day, chain, AnomCase(anomsView, anomOutcome), bridges)
                     ELSE ExplainRoutine(day, chain, AnomCase(anomsView, anomOutcome))
        /\ UNCHANGED <<flows, anomsView, contrast, summary, verdict,
                       runs, submitted, accountNonce>>

\* A warehouse for the pipeline: six bridge x token keys on (10, ethereum),
\* one on (9, ethereum), one on (10, bsc), none on (9, bsc).
ExplainFlows ==
    {FlowRecord(10, "ethereum", "across",   "USDC", <<6, 0, 6, 3, 2>>),
     FlowRecord(10, "ethereum", "across",   "WETH", <<0, 5, -5, 2, 2>>),
     FlowRecord(10, "ethereum", "hop",      "USDC", <<4, 0, 4, 2, 1>>),
     FlowRecord(10, "ethereum", "hop",      "WETH", <<0, 3, -3, 1, 1>>),
     FlowRecord(10, "ethereum", "stargate", "USDC", <<2, 0, 2, 1, 1>>),
     FlowRecord(10, "ethereum", "stargate", "WETH", <<0, 1, -1, 1, 1>>),
     FlowRecord(9,  "ethereum", "across",   "USDC", <<3, 0, 3, 1, 1>>),
     FlowRecord(10, "bsc",      "across",   "USDC", <<1, 0, 1, 1, 1>>)}

AnomRow(d, c, b, z, n, flag) ==
    [day |-> d, chain |-> c, bridge |-> b, zscore_30d |-> z, net_usd |-> n,
     is_anom_bridge |-> flag]

\* An anomaly view: three anomalous bridges on (10, ethereum), one on
\* (9, ethereum), and a row on (10, bsc) that is not flagged.
AnomRows ==
    {AnomRow(10, "ethereum", "across", 5, 1, TRUE),
     AnomRow(10, "ethereum", "hop", -4, 1, TRUE),
     AnomRow(10, "ethereum", "stargate", 3, 0, TRUE),
     AnomRow(9,  "ethereum", "across", 4, 3, TRUE),
     AnomRow(10, "bsc", "across", 1, 1, FALSE)}

Init ==
    /\ flows = ExplainFlows
    /\ anomsView \in {<<>>, <<{}>>, <<AnomRows>>}
    /\ briefings = {}
    /\ clock = 0
    /\ resp = NoResp
    /\ call = NoCall
    /\ contrast = NoQuery
    /\ summary = <<>>
    /\ verdict = <<>>
    /\ runs = [r \in Runs |-> IdleRun]
    /\ submitted = <<>>
    /\ accountNonce = 0

Next == \E day \in ExplainDays, chainParam \in ChainParams : Explain(day, chainParam)

Spec == Init /\ [][Next]_vars

----------------------------------------------------------------------------
(* Claims about the explain pipeline, stated on the last invocation *)

Invoked == call.stage # "none"

Returned == call.stage = "done"

\* C1: every invocation of explain answers HTTP 200 with ok = true, whichever
\* of its steps fail (the warehouse client's construction among them).
C1_AlwaysHttp200 == Invoked => (resp.status = 200 /\ resp.ok)

FlaggedFor(d, c) ==
    IF anomsView = <<>> THEN {}
    ELSE {r \in anomsView[1] : r.day = d /\ r.chain = c /\ r.is_anom_bridge}

\* C2: when the anomaly view is missing, or its query fails, or no row of it
\* matches (day, chain), the classifier returns the empty list and explain takes
\* the routine branch: it answers 200 with reason no_anomaly or
\* no_anomaly_fallback, never the anomaly branch.
C2_NoSignalTakesRoutineBranch ==
    (Returned /\ (\/ call.anomCase \in {"missing", "failed"}
                  \/ FlaggedFor(call.day, call.chain) = {}))
    => /\ call.bridges = <<>>
       /\ call.branch = "routine"
       /\ resp.status = 200
       /\ resp.reason \in {"no_anomaly", "no_anomaly_fallback"}

\* C2's case: the view flags bridges for (day, chain) but its query fails.
C2_Witness ==
    /\ Returned
    /\ call.anomCase = "failed"
    /\ FlaggedFor(call.day, call.chain) # {}
    /\ call.branch = "routine"

ModelFailed == Returned /\ call.model \in {"raise", "empty"}

\* "Anomaly detected but model failed (fallback)", "No significant anomaly"
FallbackReasonOf(branch) ==
    IF branch = "anomaly" THEN <<"Anomal", "y", " detected but model failed (fallback)">>
    ELSE <<"No", " ", "significant", " ", "anomal", "y">>

Min(a, b) == IF a < b THEN a ELSE b

\* The lines of a text that list a flow ("- chain/bridge token: ...").
ItemLinesOf(text) == {i \in 1..Len(text) : text[i][1] = "- "}

\* C3: in both branches, when the model call raises or returns empty text, the
\* response has fallback = true and a non-empty reason, and the narrative (the
\* one persisted when the write succeeds) is the fallback summary: non-empty,
\* its second line the conclusion with the branch's literal reason, then at most
\* 5 item lines, the k-th for the k-th evidence row, the rows being in
\* descending order of absolute net.
C3_FallbackSummaryOnModelFailure ==
    ModelFailed =>
        LET text == call.text
            rows == call.given
            n    == Min(Len(rows), 5)
        IN  /\ resp.status = 200 /\ resp.fallback /\ resp.reason # ""
            /\ text # <<>>
            /\ text[1] = <<"[Cross-Chain Flow Briefing | ", ToString(call.day), "]">>
            /\ text[2] = <<"Conclusion: ">> \o FallbackReasonOf(call.branch) \o <<".">>
            /\ ItemLinesOf(text) = {3 + k : k \in 1..n}
            /\ Len(text) = 4 + n
            /\ \A k \in 1..n :
                   /\ text[3 + k][4] = rows[k].bridge
                   /\ text[3 + k][6] = rows[k].token_symbol
                   /\ text[3 + k][8] = ToString(rows[k].net_usd)
            /\ \A i, j \in 1..Len(rows) :
                   i < j => Abs(rows[i].net_usd) >= Abs(rows[j].net_usd)
            /\ call.merged =>
                   \E t \in briefings : t.day = call.day /\ t.summary_text = text

\* C3's case: the model returned empty text in the anomaly branch over more
\* than 5 evidence rows, and the fallback narrative was persisted.
C3_Witness ==
    /\ Returned
    /\ call.model = "empty"
    /\ call.branch = "anomaly"
    /\ Len(call.given) > 5
    /\ call.merged
    /\ resp.fallback

IsPrefixOf(p, q) == Len(p) <= Len(q) /\ \A i \in 1..Len(p) : p[i] = q[i]

\* C4: the Briefing table never holds two rows of one day; and after a
\* successful write the day's row carries that write's model, text, evidence
\* snapshot and timestamp, the rows of the other days being those from before.
C4_UpsertLastWriteWins ==
    /\ \A a, b \in briefings : a.day = b.day => a = b
    /\ (Returned /\ call.merged) =>
           /\ {t \in briefings : t.day # call.day} = {t \in call.before : t.day # call.day}
           /\ \E t \in briefings :
                  /\ t.day = call.day
                  /\ t.model = MODEL
                  /\ t.summary_text = call.text
                  /\ t.created_at = call.now
                  /\ IsPrefixOf(t.source_rows_json, JsonDumps(call.evidence))
                  /\ Len(t.source_rows_json) =
                         Min(Len(JsonDumps(call.evidence)), SnapshotBudget)

\* C4's case: a day's row written by an invocation for one chain is
\* overwritten by an invocation for another chain, with another text.
C4_Witness ==
    /\ Returned
    /\ call.merged
    /\ \E t \in call.before :
           /\ t.day = call.day
           /\ t.summary_text # call.text
           /\ Len(t.source_rows_json) >= 3
           /\ t.source_rows_json[3].chain # call.chain
    /\ Cardinality(briefings) = 1

\* C5: every stored evidence snapshot is a well-formed serialization, one
\* json.loads parses, whatever the size of the evidence.
C5_StoredSnapshotParses ==
    \A t \in briefings : JsonLoads(t.source_rows_json) # <<>>

-----------------------------------------------------------------------------
\* The attestation job (src/attest/attest.py).

\* r.get("summary_text", "") or "": the stored lines as one string, the line
\* breaks back in place.
RECURSIVE JoinLines(_)
JoinLines(text) ==
    IF text = <<>> THEN <<>>
    ELSE IF Len(text) = 1 THEN text[1]
    ELSE text[1] \o <<"\n">> \o JoinLines(Tail(text))

\* keccak32: the digest stands for the text it was taken of (no two texts of
\* the model collide), and is not the text.
keccak32(text) == <<"keccak", text>>

\* ev_rows: len(json.loads(r.get("source_rows_json") or "[]")), 0 when that raises.
EvidenceRows(src) ==
    LET src_json == IF src = <<>> THEN <<"[", "]">> ELSE src
    IN  IF JsonLoads(src_json) = <<>> THEN 0 ELSE JsonLoads(src_json)[1]

\* The arguments of contract.functions.publish for one briefing row, with the
\* nonce of the transaction built around them.
BuildTransaction(run, chain, r, nonce) ==
    [run |-> run, day |-> r.day, chain |-> chain,
     summaryHash  |-> keccak32(JoinLines(r.summary_text)),
     hasAnomaly   |-> DecideHasAnomaly(JoinLines(r.summary_text)),
     evidenceRows |-> EvidenceRows(r.source_rows_json),
     model |-> r.model, uri |-> "", nonce |-> nonce]

\* ORDER BY day
RECURSIVE DayOrders(_)
DayOrders(S) ==
    IF S = {} THEN {<<>>}
    ELSE UNION {{<<r>> \o s : s \in DayOrders(S \ {r})}
                : r \in {x \in S : \A y \in S : x.day <= y.day}}

\* Any order: the single-day query has no ORDER BY.
RECURSIVE AnyOrders(_)
AnyOrders(S) ==
    IF S = {} THEN {<<>>}
    ELSE UNION {{<<r>> \o s : s \in AnyOrders(S \ {r})} : r \in S}

\* The dates of a run: --day, or --start and --end, or neither (then the day
\* is yesterday).
EffectiveDay(dates, yesterday) ==
    IF dates.day = <<>> /\ dates.range = <<>> THEN <<yesterday>> ELSE dates.day

\* The row lists the briefing query may return.
ReadBriefings(table, dates, yesterday) ==
    LET day == EffectiveDay(dates, yesterday)
    IN  IF day # <<>>
        THEN AnyOrders({t \in table : t.day = day[1]})
        ELSE DayOrders({t \in table : dates.range[1] <= t.day /\ t.day <= dates.range[2]})

\* The local nonce after a row has been handled, a variant that asks the
\* node again instead of counting.
NonceRefetched(nonce, account) == account

\* nonce += 1
NextNonce(nonce, account) == nonce + 1

\* The briefing table the job reads: MaxBriefings days from FirstBriefingDay
\* on, one row a day as _merge_briefing leaves them.
MaxBriefings == 3

FirstBriefingDay == 9

LastBriefingDay == FirstBriefingDay + MaxBriefings - 1

\* The evidence of (10, ethereum), largest |net| first, cut to n rows.
EvidenceTop(n) ==
    CHOOSE e \in FetchBridgeEvidence(ExplainFlows, 10, "ethereum", <<>>, n) : TRUE

\* What explain stored for a day: a model narrative of an anomaly with one
\* evidence row, a routine fallback summary whose three-row snapshot was cut,
\* or a model narrative of a routine day with two rows.
StoredBriefing(d) ==
    LET k == (d - FirstBriefingDay) % 3
        text == IF k = 0 THEN StrippedText("text", "anomaly")
                ELSE IF k = 1 THEN FallbackSummary(d, EvidenceTop(3), ReasonRoutine)
                ELSE StrippedText("text", "no_anomaly")
        rows == IF k = 0 THEN EvidenceTop(1)
                ELSE IF k = 1 THEN EvidenceTop(3)
                ELSE EvidenceTop(2)
    IN  BriefingRow(d, text, Take(JsonDumps(rows), SnapshotBudget), d)

AttestBriefings == {StoredBriefing(d) : d \in FirstBriefingDay..LastBriefingDay}

\* --day / --start --end as given on the command line: one stored day, a day
\* with no briefing, two ranges, and no date at all.
AttestDates ==
    {[day |-> <<FirstBriefingDay + 1>>, range |-> <<>>],
     [day |-> <<LastBriefingDay + 1>>,  range |-> <<>>],
     [day |-> <<>>, range |-> <<FirstBriefingDay, LastBriefingDay>>],
     [day |-> <<>>, range |-> <<FirstBriefingDay + 1, LastBriefingDay>>],
     [day |-> <<>>, range |-> <<>>]}

\* ZETA_PRIVATE_KEY / PRIVATE_KEY and ZETA_CONTRACT: set or not.
Environments == [pk : BOOLEAN, addr : BOOLEAN]

\* The transaction counts the account may start from.
InitialNonces == {0, 7}

InitAttest ==
    /\ briefings = AttestBriefings
    /\ accountNonce \in InitialNonces
    /\ submitted = <<>>
    /\ runs = [r \in Runs |-> IdleRun]
    /\ flows = {}
    /\ anomsView = <<>>
    /\ clock = 0
    /\ resp = NoResp
    /\ call = NoCall
    /\ contrast = NoQuery
    /\ summary = <<>>
    /\ verdict = <<>>

\* How main goes on once the query has returned rows, with the assert lost and
\* nothing else looking at the key or the address.
AfterReadUnchecked(rows, env, assertions) ==
    IF rows = <<>> THEN "returned" ELSE "loop"

\* How main goes on once the query has returned rows: the early return, the
\* assert on pk and addr, and, where the interpreter drops assert statements
\* (-O), from_key(None) or to_checksum_address(None) raising in its place.
\* An unset variable and an empty one are alike here.
AfterRead(rows, env, assertions) ==
    IF rows = <<>> THEN "returned"
    ELSE IF env.pk /\ env.addr THEN "loop"
    ELSE IF assertions THEN "assertion_failed"
    ELSE "raised"

\* main up to the loop: the arguments, the briefing query, the early return,
\* the assert on the environment, and the one read of the account's
\* transaction count.  An exception of the query or of the node is not caught.
\* env, built and alone are kept for the record: the environment the run saw,
\* the transactions it has built, and whether no other run was in its loop
\* when this one started.
AttestStart(r, chain, dates, dry, env) ==
    /\ runs[r].pc = "idle"
    /\ \E queryOutcome \in {"ok", "raise"}, yesterday \in {LastBriefingDay} :
         IF queryOutcome = "raise"
         THEN runs' = [runs EXCEPT ![r].pc = "raised", ![r].i = 1,
                                   ![r].chain = chain, ![r].dry = dry]
         ELSE \E rows \in ReadBriefings(briefings, dates, yesterday) :
                LET read == [runs[r] EXCEPT !.chain = chain, !.dry = dry,
                                            !.rows = rows, !.i = 1, !.env = env,
                                            !.alone = \A q \in Runs \ {r} :
                                                          runs[q].pc # "loop"]
                IN  \E assertions \in BOOLEAN :
                    IF AfterRead(rows, env, assertions) # "loop"
                    THEN runs' = [runs EXCEPT ![r] =
                                    [read EXCEPT !.pc = AfterRead(rows, env, assertions)]]
                    ELSE \E nodeOutcome \in {"ok", "raise"} :
                           IF nodeOutcome = "raise"
                           THEN runs' = [runs EXCEPT ![r] = [read EXCEPT !.pc = "raised"]]
                           ELSE runs' = [runs EXCEPT ![r] =
                                           [read EXCEPT !.pc = "loop",
                                                        !.nonce = accountNonce,
                                                        !.n0 = accountNonce]]
    /\ UNCHANGED <<submitted, accountNonce, briefings, flows, anomsView, clock,
                   resp, call, contrast, summary, verdict>>

\* One turn of the loop: the transaction of the next row is built, and printed
\* (--dry) or signed and sent.  A send the node refuses, or any other
\* exception, ends the run; the node refuses a nonce below the account's
\* count.  submitted holds the transactions whose send returned a hash.
Publish(r) ==
    /\ runs[r].pc = "loop"
    /\ LET run  == runs[r]
           tx   == BuildTransaction(r, run.chain, run.rows[run.i], run.nonce)
           next == [run EXCEPT !.i = @ + 1, !.built = @ + 1,
                               !.nonce = NextNonce(run.nonce, accountNonce),
                               !.pc = IF run.i = Len(run.rows) THEN "done" ELSE "loop"]
       IN  IF run.dry
           THEN /\ runs' = [runs EXCEPT ![r] = next]
                /\ UNCHANGED submitted
           ELSE \E sendOutcome \in {"hash", "raise"} :
                  IF sendOutcome = "raise" \/ run.nonce < accountNonce
                  THEN /\ runs' = [runs EXCEPT ![r].pc = "raised", ![r].built = @ + 1]
                       /\ UNCHANGED submitted
                  ELSE /\ runs' = [runs EXCEPT ![r] = next]
                       /\ submitted' = Append(submitted, tx)
    /\ UNCHANGED <<accountNonce, briefings, flows, anomsView, clock, resp, call,
                   contrast, summary, verdict>>

\* The network includes the pending transaction that carries the account's
\* next nonce: get_transaction_count (block "latest") counts it from then on.
Mine ==
    /\ \E k \in 1..Len(submitted) : submitted[k].nonce = accountNonce
    /\ accountNonce' = accountNonce + 1
    /\ UNCHANGED <<runs, submitted, briefings, flows, anomsView, clock, resp,
                   call, contrast, summary, verdict>>

NextAttest ==
    \/ \E r \in Runs, chain \in {"ethereum"}, dates \in AttestDates,
          dry \in BOOLEAN, env \in Environments : AttestStart(r, chain, dates, dry, env)
    \/ \E r \in Runs : Publish(r)
    \/ Mine

SpecAttest == InitAttest /\ [][NextAttest]_vars

TxsOf(r) ==
    LET OfRun(tx) == tx.run = r
    IN  SelectSeq(submitted, OfRun)

DayOrdered(rows) ==
    \A i \in 1..Len(rows), j \in 1..Len(rows) : i < j => rows[i].day <= rows[j].day

\* C10: the transactions a run has submitted are, in order, those of the first
\* rows of the day-ordered list it read, the i-th (from 0) with nonce n0 + i
\* for the count n0 read before the loop; a finished run has submitted every
\* row, a run that raised at row i has submitted the i - 1 rows before it, and
\* a run that never reached the loop, or runs with --dry, has submitted none.
C10_SubmittedIsPrefixWithConsecutiveNonces ==
    \A r \in Runs :
        LET run == runs[r]
            txs == TxsOf(r)
        IN  /\ DayOrdered(run.rows)
            /\ Len(txs) <= Len(run.rows)
            /\ \A k \in 1..Len(txs) :
                   txs[k] = BuildTransaction(r, run.chain, run.rows[k], run.n0 + (k - 1))
            /\ run.pc \in {"idle", "returned", "assertion_failed"} => txs = <<>>
            /\ run.dry => txs = <<>>
            /\ (run.pc = "loop" /\ ~run.dry) =>
                   /\ Len(txs) = run.i - 1
                   /\ run.nonce = run.n0 + Len(txs)
            /\ (run.pc = "raised") =>
                   /\ Len(txs) = run.i - 1
                   /\ run.rows # <<>> => Len(txs) < Len(run.rows)
            /\ (run.pc = "done" /\ ~run.dry) => Len(txs) = Len(run.rows)

\* A run over three rows whose second send raised, after a first transaction
\* with a nonce read from an account that had sent before; and a run that
\* finished all three.
C10_Witness ==
    /\ \E r \in Runs :
        /\ runs[r].pc = "raised"
        /\ Len(runs[r].rows) = 3
        /\ runs[r].n0 > 0
        /\ Len(TxsOf(r)) = 1
    /\ \E r \in Runs :
        /\ runs[r].pc = "done"
        /\ Len(TxsOf(r)) = 3

Misconfigured(run) == ~(run.env.pk /\ run.env.addr)

\* C11: a run that read at least one briefing row with the signing key or the
\* contract address missing has ended in an error (the AssertionError, or the
\* exception from_key / to_checksum_address raise where asserts are dropped),
\* with no transaction built and none submitted, with --dry and without.
C11_MissingKeyOrAddressIsFatalBeforeAnyTransaction ==
    \A r \in Runs :
        LET run == runs[r]
        IN  (run.pc # "idle" /\ run.rows # <<>> /\ Misconfigured(run)) =>
                /\ run.pc \in {"assertion_failed", "raised"}
                /\ run.built = 0
                /\ TxsOf(r) = <<>>

\* A --dry run without the key and a sending run without the address, both
\* with rows read, both stopped by the assert.
C11_Witness ==
    /\ \E r \in Runs :
        /\ runs[r].dry
        /\ runs[r].rows # <<>>
        /\ ~runs[r].env.pk
        /\ runs[r].pc = "assertion_failed"
    /\ \E r \in Runs :
        /\ ~runs[r].dry
        /\ runs[r].rows # <<>>
        /\ runs[r].env.pk
        /\ ~runs[r].env.addr
        /\ runs[r].pc = "assertion_failed"

\* What a transaction carries, the run that sent it left aside.
Payload(tx) == [tx EXCEPT !.run = 0]

SameNonceDifferentTransactions ==
    \E i \in 1..Len(submitted), j \in 1..Len(submitted) :
        /\ i < j
        /\ submitted[i].nonce = submitted[j].nonce
        /\ Payload(submitted[i]) # Payload(submitted[j])

\* No run started while another was in its loop.
OneAtATime == \A r \in Runs : runs[r].alone

\* C12: as long as the runs were executed one at a time, no two different
\* submitted transactions of the account carry the same nonce.
C12_NoSharedNonceWhenRunsAreSequential ==
    OneAtATime => ~SameNonceDifferentTransactions

\* The state the second half of C12 speaks of: a run started inside another's
\* loop, and two different submitted transactions with one nonce.
InterleavedSharedNonce == ~OneAtATime /\ SameNonceDifferentTransactions

====
